---- MODULE Spec2Model ----
(***************************************************************************)
(* Model of functions_synthetic_data.py: the three synthetic-data stages   *)
(* synthetic_swe, synthetic_generation and synthetic_power, the global     *)
(* numpy random state they seed, the pickles they persist and the          *)
(* historical tables they read (and extend with derived columns).          *)
(*                                                                         *)
(* Numbers.  A float is modelled as an integer count of grid steps, Scale  *)
(* steps to 1.0, or as NaN.  Products and quotients are rounded to the     *)
(* grid (as a float operation is rounded to the nearest float); NaN        *)
(* propagates through arithmetic and makes every comparison false, as in   *)
(* IEEE-754.  An infinity is folded into NaN: the only infinities the      *)
(* code can produce are x/0 in a whitening quotient and log(0), and every  *)
(* later use of either (times the zero deviation, or minus itself inside   *)
(* a deviation) is NaN.                                                    *)
(***************************************************************************)
EXTENDS Integers, Sequences, FiniteSets, TLC

\* Grid steps per unit (1.0 is Scale steps).
Scale == 2 * 5

\* np.nan
NaN == -(2 ^ 28)

IsNaN(x) == x = NaN

Abs(x) == IF x < 0 THEN -x ELSE x

\* Integer quotient rounded to nearest (b > 0).
RoundDiv(a, b) == (2 * a + b) \div (2 * b)

\* Float operators on grid values.
Add(a, b) == IF IsNaN(a) \/ IsNaN(b) THEN NaN ELSE a + b

Sub(a, b) == IF IsNaN(a) \/ IsNaN(b) THEN NaN ELSE a - b

Mul(a, b) == IF IsNaN(a) \/ IsNaN(b) THEN NaN ELSE RoundDiv(a * b, Scale)

Div(a, b) ==
  IF IsNaN(a) \/ IsNaN(b) \/ b = 0 THEN NaN
  ELSE IF b > 0 THEN RoundDiv(a * Scale, b)
  ELSE RoundDiv((-a) * Scale, -b)

\* Comparisons: false as soon as one side is NaN.
Lt(a, b) == ~IsNaN(a) /\ ~IsNaN(b) /\ a < b

Gt(a, b) == ~IsNaN(a) /\ ~IsNaN(b) /\ a > b

\* np.minimum(a, b): NaN if either is NaN.
Minimum(a, b) == IF IsNaN(a) \/ IsNaN(b) THEN NaN ELSE IF a < b THEN a ELSE b

\* Largest r with r * r <= n (n >= 0).
RECURSIVE ISqrtFrom(_, _)
ISqrtFrom(n, r) == IF (r + 1) * (r + 1) > n THEN r ELSE ISqrtFrom(n, r + 1)

ISqrt(n) == ISqrtFrom(n, 0)

\* A function on 1..n as an explicit tuple of its values.
AsSeq(f) == f \o <<>>

\* ---- pandas Series reductions (skipna=True) over a sequence of values ----

RECURSIVE SelectIdx(_, _, _)
\* The indices i in 1..n, ascending, for which keep[i] holds.
SelectIdx(keep, n, i) ==
  IF i > n THEN <<>>
  ELSE IF keep[i] THEN <<i>> \o SelectIdx(keep, n, i + 1)
  ELSE SelectIdx(keep, n, i + 1)

RECURSIVE SumSeq(_)
SumSeq(s) == IF s = <<>> THEN 0 ELSE Head(s) + SumSeq(Tail(s))

\* The non-NaN entries of s.
DropNaN(s) == SelectSeq(s, LAMBDA x : ~IsNaN(x))

\* Series.mean(): NaN for an empty (or all-NaN) series.
Mean(s) ==
  LET v == DropNaN(s)
  IN  IF v = <<>> THEN NaN ELSE RoundDiv(SumSeq(v), Len(v))

\* Series.std(): sample deviation (ddof = 1), NaN for fewer than two values.
Std(s) ==
  LET v == DropNaN(s)
      m == Mean(v)
      sq == AsSeq([k \in 1..Len(v) |-> (v[k] - m) * (v[k] - m)])
  IN  IF Len(v) < 2 THEN NaN ELSE ISqrt(RoundDiv(SumSeq(sq), Len(v) - 1))

\* Series.min() / Series.max() (skipna), NaN for an empty series.
MinSeq(s) ==
  LET v == DropNaN(s)
  IN  IF v = <<>> THEN NaN
      ELSE CHOOSE x \in {v[k] : k \in 1..Len(v)} : \A k \in 1..Len(v) : x <= v[k]

MaxSeq(s) ==
  LET v == DropNaN(s)
  IN  IF v = <<>> THEN NaN
      ELSE CHOOSE x \in {v[k] : k \in 1..Len(v)} : \A k \in 1..Len(v) : x >= v[k]

\* ---- program constants ----------------------------------------------------

\* N_SAMPLES = 1000000 simulated years, scaled down.
N_SAMPLES == 2

\* eps = 1e-13, the tolerance of the threshold comparison, in grid steps.
eps == 2

\* 'thres': [1000], the ceiling recorded for a month fitted without one.
thresNone == 1000 * Scale

\* thres > 999 selects the single-group treatment of a month.
thresTest == 999 * Scale

\* burn = 4 years of price burn-in.
burn == 4

\* The water months of each regression regime, in the order the code fits them.
MonthsCeiling == <<6, 7, 8, 9>>

MonthsFeb == <<2, 3, 4>>

MonthsApr == <<5, 10, 11>>

MonthsConst == <<1, 12>>

\* ---- bounds of the historical inputs -------------------------------------

\* Water years in the historical SWE and generation records.
HistYears == 4

\* Choices of the historical generation record.
GenCases == 3

\* Choices of the historical price record.
PowerCases == 3

\* Choices of the generator stream (per seed).
SweCases == 3

\* Largest SWE sample handed to the copula functions.
MaxPairs == 3

StreamCases == 3

\* Draws other code may take from the global random state between two stages.
MaxOtherDraws == 2

VARIABLES
  swe,      \* historical SWE record: one [danFeb, danApr] per water year
  gen,      \* historical generation table: [cols, rows]
  power,    \* historical price table: [cols, rows]
  lib,      \* what the numerical libraries return on these inputs (fixed per run)
  rng,      \* numpy's global random state: [seed, pos]
  disk,     \* the pickles in dir_generated_inputs
  sweSynth, \* last table returned by synthetic_swe (<<>>: none yet)
  genSynth, \* last table returned by synthetic_generation
  powSynth, \* last table returned by synthetic_power
  trace     \* history: the last call, the first table of each stage, and the
            \* locals of the last redo run of synthetic_generation / synthetic_power

vars == <<swe, gen, power, lib, rng, disk, sweSynth, genSynth, powSynth, trace>>

\* ---- the random generator -------------------------------------------------

\* One period of standard normal draws, in grid steps.
ZPeriod == <<0, 12, -7, 3, -15, 9, -2, 20, -11, 5, -4, 16, 1, -9, 7, -20, 2>>

\* The k-th standard normal (k = 0, 1, ...) the global generator yields after
\* np.random.seed(seed): a fixed function of the seed and the position.
StdNormal(seed, k) ==
  ZPeriod[((seed * 5 + k * 3 + lib.stream) % Len(ZPeriod)) + 1]

\* norm.rvs(mean, std, n) drawn from state r: n values, position advanced by n.
\* (scipy raises ValueError for a NaN scale: see the raised field of each stage.)
norm_rvs(mean, std, n, r) ==
  AsSeq([k \in 1..n |-> Add(mean, Mul(std, StdNormal(r.seed, r.pos + k - 1)))])

\* np.random.seed(s)
np_random_seed(s) == [seed |-> s, pos |-> 0]

Advance(r, n) == [seed |-> r.seed, pos |-> r.pos + n]

\* ---- synthetic_swe ----------------------------------------------------------

Column(rows, name) == AsSeq([k \in 1..Len(rows) |-> rows[k][name]])

\* Square root of a grid value.
Sqrt(v) == IF IsNaN(v) \/ v < 0 THEN NaN ELSE ISqrt(v * Scale)

\* gamma.fit(sample, floc=0): the shape and scale of the fitted gamma.
gamma_fit(sample) ==
  LET m == Mean(sample)
      sd == Std(sample)
      var == Mul(sd, sd)
  IN  [shape |-> Div(Mul(m, m), var), scale |-> Div(var, m)]

\* st.kendalltau(a, b).correlation: tau-b, NaN when one sample is constant.
kendalltau(a, b) ==
  LET n == Len(a)
      pairs == {<<i, j>> \in (1..n) \X (1..n) : i < j}
      conc == Cardinality({q \in pairs : (a[q[1]] - a[q[2]]) * (b[q[1]] - b[q[2]]) > 0})
      disc == Cardinality({q \in pairs : (a[q[1]] - a[q[2]]) * (b[q[1]] - b[q[2]]) < 0})
      tiea == Cardinality({q \in pairs : a[q[1]] = a[q[2]]})
      tieb == Cardinality({q \in pairs : b[q[1]] = b[q[2]]})
      n0 == Cardinality(pairs)
  IN  Div((conc - disc) * Scale, ISqrt((n0 - tiea) * (n0 - tieb) * Scale * Scale))

\* math.sin(t * math.pi / 2) on [-1, 1]: odd, increasing, 0 at 0 and 1 at 1
\* (the cubic 1.5 t - 0.5 t^3 rounded to the grid).
sin_half_pi(t) ==
  IF IsNaN(t) THEN NaN
  ELSE RoundDiv(t * (3 * Scale * Scale - t * t), 2 * Scale * Scale)

\* multivariate_normal.rvs(mean=[0, 0], cov=[[1, c], [c, 1]], size=n) from state r:
\* row i takes draws 2i and 2i+1 and correlates the second with the first.
multivariate_normal_rvs(c, n, r) ==
  AsSeq([i \in 1..n |->
    LET z1 == StdNormal(r.seed, r.pos + 2 * (i - 1))
        z2 == StdNormal(r.seed, r.pos + 2 * (i - 1) + 1)
    IN  <<z1, Add(Mul(c, z1), Mul(Sqrt(Sub(Scale, Mul(c, c))), z2))>>])

\* gamma.ppf(norm.cdf(z), a=shape, loc=0, scale=scale): increasing in z, never
\* negative, centred on the mean shape*scale with spread sqrt(shape)*scale.
gamma_ppf_norm_cdf(z, fit) ==
  LET q == Add(Mul(fit.shape, fit.scale), Mul(Mul(Sqrt(fit.shape), fit.scale), z))
  IN  IF IsNaN(q) THEN NaN ELSE IF q < 0 THEN 0 ELSE q

\* Body of synthetic_swe under redo, from the random state r left by the seeding.
SweTable(sweRec, r) ==
  LET fitFeb == gamma_fit(Column(sweRec, "danFeb"))
      fitApr == gamma_fit(Column(sweRec, "danApr"))
      kendallsTau == kendalltau(Column(sweRec, "danFeb"), Column(sweRec, "danApr"))
      corr_norm_equiv == sin_half_pi(kendallsTau)
      samp_fitted == multivariate_normal_rvs(corr_norm_equiv, N_SAMPLES, r)
  IN  AsSeq([i \in 1..N_SAMPLES |->
        [danFeb |-> gamma_ppf_norm_cdf(samp_fitted[i][1], fitFeb),
         danApr |-> gamma_ppf_norm_cdf(samp_fitted[i][2], fitApr)]])

\* Whether gamma.fit(sample, floc=0) raises.  A value <= 0 raises FitDataError.
\* For a sample without variance s = log(mean) - mean(log) is 0, the bracket of
\* the shape equation is (inf, inf) and the equation is NaN there: a brentq that
\* checks for NaN raises ValueError, one that does not returns a non-finite
\* shape.  The set holds what the installed library may do.
gamma_fit_raises(sample) ==
  IF \E k \in 1..Len(sample) : sample[k] <= 0 THEN {TRUE}
  ELSE IF Std(sample) = 0 THEN BOOLEAN
  ELSE {FALSE}

\* corr_norm_equiv; multivariate_normal.rvs raises ValueError when it is NaN.
CorrNormEquiv(sweRec) ==
  sin_half_pi(kendalltau(Column(sweRec, "danFeb"), Column(sweRec, "danApr")))

\* ---- synthetic_generation: regressions --------------------------------------

\* linear_w_max(x, intercept, slope, upperbound) for one x.
linear_w_max(xv, intercept, slope, upperbound) ==
  Minimum(Add(intercept, Mul(slope, xv)), upperbound)

\* Indices of the rows of a table whose wmnth is i.
MonthIdx(rows, i) == SelectIdx([k \in 1..Len(rows) |-> rows[k].wmnth = i], Len(rows), 1)

ColumnAt(rows, idx, name) == AsSeq([k \in 1..Len(idx) |-> rows[idx[k]][name]])

\* sp.optimize.curve_fit(linear_w_max, x, y, p0): popt of month i.
curve_fit(i) == lib.popt[i]

\* sm.ols('gen ~ swe').fit().params for samples xs (swe) and ys (gen): the least
\* squares line, and the minimum-norm solution when xs is constant.
ols_params(xs, ys) ==
  LET xbar == Mean(xs)
      ybar == Mean(ys)
      sxy == SumSeq([k \in 1..Len(xs) |-> (xs[k] - xbar) * (ys[k] - ybar)])
      sxx == SumSeq([k \in 1..Len(xs) |-> (xs[k] - xbar) * (xs[k] - xbar)])
      slope == Div(sxy, sxx)
      d == Add(Scale, Mul(xbar, xbar))
  IN  IF Len(xs) = 0 THEN <<NaN, NaN>>
      ELSE IF sxx = 0 THEN <<Div(ybar, d), Div(Mul(xbar, ybar), d)>>
      ELSE <<Sub(ybar, Mul(slope, xbar)), slope>>

\* The row a ceiling month appends to lmGenWmnthParams.
ParamsCeiling(rows, i) ==
  LET popt == curve_fit(i)
      idx == MonthIdx(rows, i)
      res == AsSeq([k \in 1..Len(idx) |->
               Sub(rows[idx[k]].tot,
                   linear_w_max(rows[idx[k]].sweApr, popt[1], popt[2], popt[3]))])
  IN  [wmnth |-> i, int |-> popt[1], sweAprSlp |-> popt[2], sweFebSlp |-> 0,
       thres |-> popt[3], residStd |-> Std(res)]

\* The row a February-only month appends.
ParamsFeb(rows, i) ==
  LET idx == MonthIdx(rows, i)
      par == ols_params(ColumnAt(rows, idx, "sweFeb"), ColumnAt(rows, idx, "tot"))
      res == AsSeq([k \in 1..Len(idx) |->
               Sub(rows[idx[k]].tot, Add(par[1], Mul(par[2], rows[idx[k]].sweFeb)))])
  IN  [wmnth |-> i, int |-> par[1], sweFebSlp |-> par[2], sweAprSlp |-> 0,
       thres |-> thresNone, residStd |-> Std(res)]

\* Fault: the April slope written into both slope columns.
ParamsAprBothSlopes(rows, i) ==
  LET idx == MonthIdx(rows, i)
      par == ols_params(ColumnAt(rows, idx, "sweApr"), ColumnAt(rows, idx, "tot"))
  IN  [wmnth |-> i, int |-> par[1], sweFebSlp |-> par[2], sweAprSlp |-> par[2],
       thres |-> thresNone, residStd |-> NaN]

\* The row an April-only month appends.
ParamsApr(rows, i) ==
  LET idx == MonthIdx(rows, i)
      par == ols_params(ColumnAt(rows, idx, "sweApr"), ColumnAt(rows, idx, "tot"))
      res == AsSeq([k \in 1..Len(idx) |->
               Sub(rows[idx[k]].tot, Add(par[1], Mul(par[2], rows[idx[k]].sweApr)))])
  IN  [wmnth |-> i, int |-> par[1], sweFebSlp |-> 0, sweAprSlp |-> par[2],
       thres |-> thresNone, residStd |-> Std(res)]

\* The row a month without threshold or SWE appends.
ParamsConst(rows, i) ==
  LET idx == MonthIdx(rows, i)
      m == Mean(ColumnAt(rows, idx, "tot"))
      res == AsSeq([k \in 1..Len(idx) |-> Sub(rows[idx[k]].tot, m)])
  IN  [wmnth |-> i, int |-> m, sweFebSlp |-> 0, sweAprSlp |-> 0,
       thres |-> thresNone, residStd |-> Std(res)]

\* lmGenWmnthParams after the four fitting loops, in append order.
FitParams(rows) ==
  AsSeq([k \in 1..Len(MonthsCeiling) |-> ParamsCeiling(rows, MonthsCeiling[k])])
  \o [k \in 1..Len(MonthsFeb) |-> ParamsFeb(rows, MonthsFeb[k])]
  \o [k \in 1..Len(MonthsApr) |-> ParamsApr(rows, MonthsApr[k])]
  \o [k \in 1..Len(MonthsConst) |-> ParamsConst(rows, MonthsConst[k])]

\* lmGenWmnthParams.loc[lmGenWmnthParams.wmnth == i] ... .iloc[0]
ParamOf(params, i) ==
  params[CHOOSE k \in 1..Len(params) :
           params[k].wmnth = i /\ \A j \in 1..(k - 1) : params[j].wmnth # i]

InSeq(v, s) == \E k \in 1..Len(s) : s[k] = v

\* The table read by month: entry i is the first row whose wmnth is i.
ByMonth(params) == AsSeq([i \in 1..12 |-> ParamOf(params, i)])

\* gen.genPredS of one historical row after the fitting loops (NaN where no loop
\* assigned it); par is lmGenWmnthParams read by month.
HistPred(row, par) ==
  IF InSeq(row.wmnth, MonthsCeiling)
    THEN LET q == par[row.wmnth]
         IN  linear_w_max(row.sweApr, q.int, q.sweAprSlp, q.thres)
  ELSE IF InSeq(row.wmnth, MonthsFeb)
    THEN LET q == par[row.wmnth]
         IN  Add(q.int, Mul(q.sweFebSlp, row.sweFeb))
  ELSE IF InSeq(row.wmnth, MonthsApr)
    THEN LET q == par[row.wmnth]
         IN  Add(q.int, Mul(q.sweAprSlp, row.sweApr))
  ELSE IF InSeq(row.wmnth, MonthsConst)
    THEN par[row.wmnth].int
  ELSE NaN

\* ---- synthetic_generation: whitening ----------------------------------------

\* Fault: the tolerance taken three times too wide.
GroupOfWide(pred, thres) ==
  IF Gt(thres, thresTest) THEN "all"
  ELSE IF Gt(pred, Sub(thres, 3 * eps)) THEN "above"
  ELSE IF Lt(pred, Sub(thres, 3 * eps)) THEN "below"
  ELSE "none"

\* The whitening group of a predicted value in a month whose ceiling is thres:
\* "all" when thres > 999, else the side of thres - eps, else none.
GroupOf(pred, thres) ==
  IF Gt(thres, thresTest) THEN "all"
  ELSE IF Gt(pred, Sub(thres, eps)) THEN "above"
  ELSE IF Lt(pred, Sub(thres, eps)) THEN "below"
  ELSE "none"

\* gen.genResidS of the historical rows of month i whose genPredS selects group g.
GroupResid(rows, par, i, g) ==
  LET idx == MonthIdx(rows, i)
      keep == AsSeq([k \in 1..Len(idx) |-> GroupOf(rows[idx[k]].genPredS, par[i].thres) = g])
      sel == SelectIdx(keep, Len(idx), 1)
  IN  AsSeq([k \in 1..Len(sel) |-> rows[idx[sel[k]]].genResidS])

\* .mean() and .std() of one group.
GroupStat(rows, par, i, g) ==
  LET res == GroupResid(rows, par, i, g)
  IN  [mean |-> Mean(res), std |-> Std(res)]

\* The mean and deviation of every group of every month, as the whitening and
\* re-seasonalizing loops compute them from the historical residuals.
GroupStats(rows, par) ==
  AsSeq([i \in 1..12 |->
    [all |-> GroupStat(rows, par, i, "all"),
     above |-> GroupStat(rows, par, i, "above"),
     below |-> GroupStat(rows, par, i, "below")]])

\* gen.genResidSDe of one historical row after the deseasonalizing loop.
Whiten(row, stats, par) ==
  IF row.wmnth \notin 1..12 THEN NaN
  ELSE LET g == GroupOf(row.genPredS, par[row.wmnth].thres)
       IN  IF g = "none" THEN NaN
           ELSE Div(Sub(row.genResidS, stats[row.wmnth][g].mean), stats[row.wmnth][g].std)

\* genSynth.residS of a synthetic row: the re-seasonalizing loop.
Dewhiten(residSDe, genPred, wmnth, stats, par) ==
  LET g == GroupOf(genPred, par[wmnth].thres)
  IN  IF g = "none" THEN NaN
      ELSE Add(Mul(residSDe, stats[wmnth][g].std), stats[wmnth][g].mean)

\* ---- synthetic_generation: AR(1,3) fit and simulation ------------------------

\* sm.ols('dat ~ dat_1 + dat_3 - 1').fit().params on the whitened series.
lmGenAR == lib.ar

\* gen.genResidSDeAR: defined from the fourth row on.
\* Fault: the second weight applied to the whitened value two rows back.
ResidARLag2(sde, k) ==
  IF k < 4 THEN NaN
  ELSE Sub(Sub(sde[k], Mul(lmGenAR[1], sde[k - 1])), Mul(lmGenAR[2], sde[k - 2]))

\* The data frame handed to sm.ols: dat = iloc[3:], dat_1 = iloc[2:-1],
\* dat_2 = iloc[1:-2], dat_3 = iloc[:-3], each with its index reset.
ARDesign(sde) ==
  AsSeq([k \in 1..(Len(sde) - 3) |->
    [dat |-> sde[k + 3], dat_1 |-> sde[k + 2], dat_2 |-> sde[k + 1], dat_3 |-> sde[k]]])

\* gen.genResidSDeAR.iloc[k - 1]: NaN for the first three rows.
ResidAR(sde, k) ==
  IF k < 4 THEN NaN
  ELSE Sub(Sub(sde[k], Mul(lmGenAR[1], sde[k - 1])), Mul(lmGenAR[2], sde[k - 3]))

RECURSIVE ARBufferLag2(_, _, _, _)
\* Fault: the second weight applied to the value two steps back.
ARBufferLag2(buf, innov, w1, w3) ==
  IF Len(buf) >= Len(innov) THEN buf
  ELSE LET t == Len(buf) + 1
       IN  ARBufferLag2(Append(buf, Add(Add(Mul(w1, buf[t - 1]), Mul(w3, buf[t - 2])),
                                        innov[t])),
                        innov, w1, w3)

RECURSIVE ARBuffer(_, _, _, _)
\* dum[:, 1]: the first three values given, then
\* dum[i, 1] = residAR1_wt * dum[i-1, 1] + residAR3_wt * dum[i-3, 1] + dum[i, 0].
ARBuffer(buf, innov, w1, w3) ==
  IF Len(buf) >= Len(innov) THEN buf
  ELSE LET t == Len(buf) + 1
       IN  ARBuffer(Append(buf, Add(Add(Mul(w1, buf[t - 1]), Mul(w3, buf[t - 3])),
                                    innov[t])),
                    innov, w1, w3)

\* Fault: the last twelve values discarded, the initial ones retained.
DropLastYear(col, n) == AsSeq([k \in 1..(Len(col) - n) |-> col[k]])

\* dum = dum[12:, :] for one column.
DropBurnIn(col, n) == AsSeq([k \in 1..(Len(col) - n) |-> col[k + n]])

\* Fault: the SWE pair looked up by the row's month instead of its year.
SynthRowByMonth(k, sweArg) ==
  LET i == (k - 1) \div 12
      j == (k - 1) % Len(sweArg)
  IN  [wyr |-> i, wmnth |-> ((k - 1) % 12) + 1,
       sweFeb |-> sweArg[j + 1].danFeb, sweApr |-> sweArg[j + 1].danApr]

\* Columns wyr, wmnth, sweFeb, sweApr of buffer row k (k = 1 is dum[0]) after the
\* burn-in is dropped: year i = (k - 1) div 12 fills rows 12i .. 12i + 11 with
\* months 1..12 and with snowFeb[i], snowApr[i].
SynthRow(k, sweArg) ==
  LET i == (k - 1) \div 12
  IN  [wyr |-> i, wmnth |-> ((k - 1) % 12) + 1,
       sweFeb |-> sweArg[i + 1].danFeb, sweApr |-> sweArg[i + 1].danApr]

\* Fault: the prediction without the cap at the ceiling.
SynthPredUncapped(sweFeb, sweApr, q) ==
  Add(Add(q.int, Mul(q.sweFebSlp, sweFeb)), Mul(q.sweAprSlp, sweApr))

\* genSynth.genPred of a synthetic row of month i.
SynthPred(sweFeb, sweApr, q) ==
  Minimum(Add(Add(q.int, Mul(q.sweFebSlp, sweFeb)), Mul(q.sweAprSlp, sweApr)),
          q.thres)

\* Fault: the upper clipping assignment left out.
ClipBelowOnly(v, lo, hi) == IF Lt(v, lo) THEN lo ELSE v

\* The two clipping assignments on genSynth['gen'].
Clip(v, lo, hi) ==
  LET a == IF Lt(v, lo) THEN lo ELSE v
  IN  IF Gt(a, hi) THEN hi ELSE a

\* Fault: the re-computation without the division by the deviation.
StrayRecomputeUnscaled(rows, stats, par, i) ==
  AsSeq([k \in 1..Len(rows) |->
    IF rows[k].wmnth = i
    THEN [rows[k] EXCEPT !.genResidSDe = Sub(rows[k].genResidS, stats[i].all.mean)]
    ELSE rows[k]])

\* The rows the re-computation assigns: those of month i, all of them when
\* thres > 999 and those above thres - eps otherwise.
StrayRows(rows, par, i) ==
  {k \in 1..Len(rows) :
     rows[k].wmnth = i /\ GroupOf(rows[k].genPredS, par[i].thres) \in {"all", "above"}}

\* The re-computation left between the prediction loop and the re-seasonalizing
\* loop: it runs once, with i as the prediction loop left it, and rewrites
\* gen.genResidSDe for month i (all rows, or the above-threshold rows only).
StrayRecompute(rows, stats, par, i) ==
  AsSeq([k \in 1..Len(rows) |->
    IF rows[k].wmnth = i /\ GroupOf(rows[k].genPredS, par[i].thres) \in {"all", "above"}
    THEN [rows[k] EXCEPT !.genResidSDe = Whiten(rows[k], stats, par)]
    ELSE rows[k]])

\* Right edge of the regression panels of the figure.
max_x == 60 * Scale

\* Quotients by zero of numpy floats: signed infinity, NaN for 0 / 0.
PosInf == 2 ^ 28

NegInf == -(2 ^ 28) + 1

\* x1 = (y1 - y0) / slp on numpy floats.
CrossingPoint(y0, y1, slp) ==
  IF slp = 0 /\ ~IsNaN(y0) /\ ~IsNaN(y1)
  THEN IF y1 > y0 THEN PosInf ELSE IF y1 < y0 THEN NegInf ELSE NaN
  ELSE Div(Sub(y1, y0), slp)

\* What one panel of the figure evaluates and draws for water month wmnth: the
\* summed slope, the crossing point x1, the flat line (slp == 0) or the sloped
\* segment up to x1, and the ceiling segment from x1 on (x1 < max_x).
Panel(q, wmnth) ==
  LET slp == Add(q.sweAprSlp, q.sweFebSlp)
      x1 == CrossingPoint(q.int, q.thres, slp)
  IN  [wmnth |-> wmnth, slp |-> slp, x1 |-> x1,
       sloped |-> IF slp = 0 THEN <<>> ELSE <<x1>>,
       ceiling |-> IF Lt(x1, max_x) THEN <<x1>> ELSE <<>>]

\* The locals of synthetic_generation at its first statement after the seeding:
\* historical table g, synthetic SWE table sweArg, random state r, flag plot.
\* Each step below is one section of the body and assigns the locals of that
\* section.
GenLocals(g, sweArg, r, plot) ==
  [rows |-> g.rows, cols |-> g.cols, arg |-> sweArg, r |-> r, plot |-> plot,
   panels |-> <<>>, design |-> <<>>, stray |-> {},
   params |-> <<>>, par |-> <<>>, stats |-> <<>>, sdeFit |-> <<>>, AR_std |-> NaN,
   innov |-> <<>>, first3 |-> <<>>, buf |-> <<>>, residSDe |-> <<>>, base |-> <<>>,
   genPred |-> <<>>, residS |-> <<>>, lo |-> NaN, hi |-> NaN, out |-> <<>>]

\* The four fitting loops: lmGenWmnthParams, and the same table read by month.
FitMonths(s) == [s EXCEPT !.params = FitParams(s.rows)]

ReadByMonth(s) == [s EXCEPT !.par = ByMonth(s.params)]

\* if (plot): the twelve panels of the regression figure, wmnth = 1 + 4*i + j.
Plotted(s) ==
  [s EXCEPT !.panels = IF s.plot
                       THEN AsSeq([wmnth \in 1..12 |-> Panel(s.par[wmnth], wmnth)])
                       ELSE <<>>]

\* gen.genPredS as the loops assign it and gen['genResidS'] = gen.tot - gen.genPredS.
Residuals(s) ==
  [s EXCEPT !.rows = AsSeq([k \in 1..Len(s.rows) |->
     [s.rows[k] EXCEPT !.genPredS = HistPred(s.rows[k], s.par),
                       !.genResidS = Sub(s.rows[k].tot, HistPred(s.rows[k], s.par)),
                       !.genResidSDe = NaN,
                       !.genResidSDeAR = NaN]])]

\* The group means and deviations.  genPredS and genResidS are final once
\* assigned, so the whitening loop, the stray re-computation and the
\* re-seasonalizing loop each take the same numbers from them: stats.
GroupMoments(s) == [s EXCEPT !.stats = GroupStats(s.rows, s.par)]

\* The deseasonalizing loop: gen.genResidSDe.
Deseasonalized(s) ==
  [s EXCEPT !.rows = AsSeq([k \in 1..Len(s.rows) |->
     [s.rows[k] EXCEPT !.genResidSDe = Whiten(s.rows[k], s.stats, s.par)]])]

\* The whitened series the AR model is fitted on.
FittedSeries(s) ==
  [s EXCEPT !.sdeFit = Column(s.rows, "genResidSDe"),
            !.design = ARDesign(Column(s.rows, "genResidSDe"))]

\* gen['genResidSDeAR']
ARResiduals(s) ==
  [s EXCEPT !.rows = AsSeq([k \in 1..Len(s.rows) |->
     [s.rows[k] EXCEPT !.genResidSDeAR = ResidAR(s.sdeFit, k)]])]

\* AR_std = lmGenAR.resid.std()
ARDeviation(s) == [s EXCEPT !.AR_std = Std(Column(s.rows, "genResidSDeAR"))]

\* dum[:, 0] and dum[:3, 1]: the two norm.rvs calls.
Innovations(s) ==
  [s EXCEPT !.innov = norm_rvs(0, s.AR_std, (N_SAMPLES + 1) * 12, s.r),
            !.first3 = norm_rvs(0, s.AR_std, 3, Advance(s.r, (N_SAMPLES + 1) * 12))]

\* The recursion over dum[:, 1].
Recursion(s) == [s EXCEPT !.buf = ARBuffer(s.first3, s.innov, lmGenAR[1], lmGenAR[2])]

\* dum = dum[12:, :]
BurnInDropped(s) == [s EXCEPT !.residSDe = DropBurnIn(s.buf, 12)]

\* The loop attaching year, month and SWE pair, and the genSynth DataFrame.
Attached(s) ==
  [s EXCEPT !.base = AsSeq([k \in 1..Len(s.residSDe) |-> SynthRow(k, s.arg)])]

\* The prediction loop: genSynth.genPred.
Predicted(s) ==
  [s EXCEPT !.genPred = AsSeq([k \in 1..Len(s.base) |->
     SynthPred(s.base[k].sweFeb, s.base[k].sweApr, s.par[s.base[k].wmnth])])]

\* The stray re-computation, with i = 12 as the prediction loop left it.
Recomputed(s) ==
  [s EXCEPT !.rows = StrayRecompute(s.rows, s.stats, s.par, 12),
            !.stray = StrayRows(s.rows, s.par, 12)]

\* The re-seasonalizing loop: genSynth.residS.
Reseasonalized(s) ==
  [s EXCEPT !.residS = AsSeq([k \in 1..Len(s.base) |->
     Dewhiten(s.residSDe[k], s.genPred[k], s.base[k].wmnth, s.stats, s.par)])]

\* gen.tot.min() and gen.tot.max()
Limits(s) ==
  [s EXCEPT !.lo = MinSeq(Column(s.rows, "tot")), !.hi = MaxSeq(Column(s.rows, "tot"))]

\* genSynth['gen'] = genPred + residS, clipped, and the columns returned.
Clipped(s) ==
  [s EXCEPT !.out = AsSeq([k \in 1..Len(s.base) |->
     [wyr |-> s.base[k].wyr, wmnth |-> s.base[k].wmnth,
      sweFeb |-> s.base[k].sweFeb, sweApr |-> s.base[k].sweApr,
      gen |-> Clip(Add(s.genPred[k], s.residS[k]), s.lo, s.hi),
      genPred |-> s.genPred[k]]])]

\* The body up to the first norm.rvs call, which raises on a NaN deviation.
GenFit(g, sweArg, r, plot) ==
  ARDeviation(ARResiduals(FittedSeries(Deseasonalized(GroupMoments(
    Residuals(Plotted(ReadByMonth(FitMonths(GenLocals(g, sweArg, r, plot))))))))))

\* The body from the first norm.rvs call on.
GenSimulate(s) ==
  Clipped(Limits(Reseasonalized(Recomputed(Predicted(Attached(
    BurnInDropped(Recursion(Innovations(s)))))))))

\* What a run leaves: the table returned, the columns written into gen, the
\* random state, and the locals.
GenOutcome(s, f) ==
  [raised |-> IsNaN(f.AR_std),
   gen |-> [cols |-> s.cols \cup {"genPredS", "genResidS", "genResidSDe", "genResidSDeAR"},
            rows |-> IF IsNaN(f.AR_std) THEN f.rows ELSE s.rows],
   out |-> s.out,
   rng |-> Advance(s.r, (N_SAMPLES + 1) * 12 + 3),
   run |-> [arg |-> s.arg, params |-> s.params, par |-> s.par, stats |-> s.stats,
            panels |-> s.panels, design |-> s.design, stray |-> s.stray,
            sdeFit |-> s.sdeFit, AR_std |-> s.AR_std, innov |-> s.innov,
            first3 |-> s.first3, buf |-> s.buf,
            residSDe |-> s.residSDe, residS |-> s.residS, lo |-> s.lo, hi |-> s.hi]]

GenRun(f) == GenOutcome(GenSimulate(f), f)

\* Body of synthetic_generation under redo.
GenStage(g, sweArg, r, plot) == GenRun(GenFit(g, sweArg, r, plot))

\* ---- synthetic_power -----------------------------------------------------------

RECURSIVE Log2Floor(_)
\* Largest k with 2^k <= p (p >= 1).
Log2Floor(p) == IF p < 2 THEN 0 ELSE 1 + Log2Floor(p \div 2)

\* Logarithm of a positive count of grid steps, in grid steps (base 2, linear
\* between powers of two).
LogSteps(p) == Scale * Log2Floor(p) + RoundDiv(Scale * (p - 2 ^ Log2Floor(p)), 2 ^ Log2Floor(p))

\* np.log: NaN for a negative or NaN argument; log(0) = -inf is folded into NaN.
\* The base is 2 here and in exp below; no statement depends on the base.
log(p) == IF IsNaN(p) \/ p <= 0 THEN NaN ELSE LogSteps(p) - LogSteps(Scale)

\* Below this argument a double's exp underflows to 0.
expUnderflow == -(745 * Scale)

\* np.exp: NaN for NaN, 0 on underflow, otherwise positive (at least one grid
\* step: the grid has no exponent range, a double has).
exp(v) ==
  IF IsNaN(v) THEN NaN
  ELSE IF v < expUnderflow THEN 0
  ELSE LET y == v + LogSteps(Scale)
           k == y \div Scale
           f == y % Scale
           e == IF k >= 0 THEN RoundDiv((2 ^ k) * (Scale + f), Scale)
                ELSE RoundDiv(Scale + f, Scale * (2 ^ (-k)))
       IN  IF e < 1 THEN 1 ELSE e

\* np.std(series): population deviation (ddof = 0), NaN entries skipped.
np_std(s) ==
  LET v == DropNaN(s)
      m == Mean(v)
      sq == AsSeq([k \in 1..Len(v) |-> (v[k] - m) * (v[k] - m)])
  IN  IF Len(v) < 1 THEN NaN ELSE ISqrt(RoundDiv(SumSeq(sq), Len(v)))

\* SARIMAX(order=(1,0,0), seasonal_order=(0,0,1,12)).fit().params[0:2]
sarimaxParams == lib.sarimax

RECURSIVE SarimaxResid(_, _, _)
\* sarimaxPower.resid: the one-step errors e[t] = y[t] - ar*y[t-1] - ma*e[t-12];
\* a missing (NaN) y[t] has no error and is replaced by its forecast.
\* st = [y |-> filled series so far, e |-> errors so far, r |-> reported resid].
SarimaxResid(y, t, st) ==
  IF t > Len(y) THEN st.r
  ELSE LET yprev == IF t > 1 THEN st.y[t - 1] ELSE 0
           eprev == IF t > 12 THEN st.e[t - 12] ELSE 0
           fc == Add(Mul(sarimaxParams[1], yprev), Mul(sarimaxParams[2], eprev))
       IN  IF IsNaN(y[t])
           THEN SarimaxResid(y, t + 1, [y |-> Append(st.y, fc), e |-> Append(st.e, 0),
                                        r |-> Append(st.r, NaN)])
           ELSE SarimaxResid(y, t + 1, [y |-> Append(st.y, y[t]),
                                        e |-> Append(st.e, y[t] - fc),
                                        r |-> Append(st.r, y[t] - fc)])

RECURSIVE PriceBufferSameRow(_, _, _, _)
\* Fault: the moving-average term read from the row before, not from the row
\* twelve months before.
PriceBufferSameRow(buf, innov, ar, ma) ==
  IF Len(buf) >= Len(innov) THEN buf
  ELSE LET t == Len(buf) + 1
       IN  PriceBufferSameRow(Append(buf, Add(Add(Mul(ar, buf[t - 1]), Mul(ma, innov[t - 1])),
                                              innov[t])),
                              innov, ar, ma)

RECURSIVE PriceBuffer(_, _, _, _)
\* dum[:, 2]: the first twelve values given, then
\* dum[i, 2] = logDeAR1coef * dum[i-1, 2] + logDeMA12coef * dum[i-12, 3] + dum[i, 3].
PriceBuffer(buf, innov, ar, ma) ==
  IF Len(buf) >= Len(innov) THEN buf
  ELSE LET t == Len(buf) + 1
       IN  PriceBuffer(Append(buf, Add(Add(Mul(ar, buf[t - 1]), Mul(ma, innov[t - 12])),
                                       innov[t])),
                       innov, ar, ma)

\* series.iloc[-n:]
Last(s, n) == AsSeq([k \in 1..n |-> s[Len(s) - n + k]])

\* power.logMean.loc[power.wmnth == i]
MonthLog(rows, i) == ColumnAt(rows, MonthIdx(rows, i), "logMean")

\* power.logDe of one historical row.
Deseasonalize(row, rows) ==
  IF row.wmnth \notin 1..12 THEN NaN
  ELSE Div(Sub(row.logMean, Mean(MonthLog(rows, row.wmnth))), Std(MonthLog(rows, row.wmnth)))

\* powSynth.logPrice of a synthetic row of month i.
Reseasonalize(logDe, i, rows) ==
  Add(Mul(logDe, Std(MonthLog(rows, i))), Mean(MonthLog(rows, i)))

\* The locals of synthetic_power at its first statement after the seeding:
\* historical table pw, random state r.  Each step below is one section of the
\* body.
PowerLocals(pw, r) ==
  [rows |-> pw.rows, cols |-> pw.cols, r |-> r, resid |-> <<>>, logDeERRSTD |-> NaN,
   innov |-> <<>>, buf |-> <<>>, kept |-> <<>>, logPrice |-> <<>>, out |-> <<>>]

\* power['logMean'] = np.log(power.priceMean)
Logged(s) ==
  [s EXCEPT !.rows = AsSeq([k \in 1..Len(s.rows) |->
     [s.rows[k] EXCEPT !.logMean = log(s.rows[k].priceMean), !.logDe = NaN]])]

\* The loop assigning power.logDe.
LogDeseasonalized(s) ==
  [s EXCEPT !.rows = AsSeq([k \in 1..Len(s.rows) |->
     [s.rows[k] EXCEPT !.logDe = Deseasonalize(s.rows[k], s.rows)]])]

\* sarimaxPower.resid
Fitted(s) ==
  [s EXCEPT !.resid = SarimaxResid(Column(s.rows, "logDe"), 1,
                                   [y |-> <<>>, e |-> <<>>, r |-> <<>>])]

\* logDeERRSTD = np.std(sarimaxPower.resid)
ErrorDeviation(s) == [s EXCEPT !.logDeERRSTD = np_std(s.resid)]

\* dum[:12, 3] and dum[12:, 3]
PriceInnovations(s) ==
  [s EXCEPT !.innov = Last(s.resid, 12)
                        \o norm_rvs(0, s.logDeERRSTD, (N_SAMPLES + burn - 1) * 12, s.r)]

\* dum[:12, 2] and the recursion over dum[12:, 2].
PriceRecursion(s) ==
  [s EXCEPT !.buf = PriceBuffer(Last(Column(s.rows, "logDe"), 12), s.innov,
                                sarimaxParams[1], sarimaxParams[2])]

\* Fault: the rows labelled with the years and months of the buffer's start.
PriceLabelsFromStart(s) ==
  [s EXCEPT !.kept = AsSeq([k \in 1..(N_SAMPLES * 12) |->
     [wyr |-> ((k - 1) \div 12) - burn, wmnth |-> ((k - 1) % 12) + 1,
      logDe |-> s.buf[k + 12 * burn]]])]

\* Fault: the burn-in rows kept and the last rows dropped.
PriceBurnInKept(s) ==
  [s EXCEPT !.kept = AsSeq([k \in 1..(N_SAMPLES * 12) |->
     [wyr |-> (k - 1) \div 12, wmnth |-> ((k - 1) % 12) + 1, logDe |-> s.buf[k]]])]

\* dum = dum[(12 * burn):, :] with the year and month labels of the rows kept.
PriceBurnInDropped(s) ==
  [s EXCEPT !.kept = AsSeq([k \in 1..(N_SAMPLES * 12) |->
     [wyr |-> ((k + 12 * burn - 1) \div 12) - burn,
      wmnth |-> ((k + 12 * burn - 1) % 12) + 1,
      logDe |-> s.buf[k + 12 * burn]]])]

\* The loop assigning powSynth.logPrice.
PriceReseasonalized(s) ==
  [s EXCEPT !.logPrice = AsSeq([k \in 1..Len(s.kept) |->
     Reseasonalize(s.kept[k].logDe, s.kept[k].wmnth, s.rows)])]

\* powSynth['powPrice'] = np.exp(powSynth.logPrice), and the columns returned.
Exponentiated(s) ==
  [s EXCEPT !.out = AsSeq([k \in 1..Len(s.kept) |->
     [wyr |-> s.kept[k].wyr, wmnth |-> s.kept[k].wmnth,
      powPrice |-> exp(s.logPrice[k])]])]

\* What a run leaves: the table returned, the columns written into power, the
\* random state, and the locals.
PowerOutcome(s) ==
  [raised |-> IsNaN(s.logDeERRSTD),
   power |-> [cols |-> s.cols \cup {"logMean", "logDe"}, rows |-> s.rows],
   out |-> s.out,
   rng |-> Advance(s.r, (N_SAMPLES + burn - 1) * 12),
   run |-> [innov |-> s.innov, buf |-> s.buf, logPrice |-> s.logPrice, resid |-> s.resid,
            logDeERRSTD |-> s.logDeERRSTD, kept |-> s.kept]]

\* Body of synthetic_power under redo.
PowerStage(pw, r) ==
  PowerOutcome(Exponentiated(PriceReseasonalized(PriceBurnInDropped(PriceRecursion(
    PriceInnovations(ErrorDeviation(Fitted(LogDeseasonalized(Logged(
      PowerLocals(pw, r)))))))))))

\* ---- historical inputs ------------------------------------------------------

\* The historical SWE record: HistYears water years, February and April values
\* positive, distinct and not perfectly concordant.
SweRecord ==
  [y \in 1..HistYears |->
    [danFeb |-> 10 * y + (IF y % 2 = 0 THEN 15 ELSE 0), danApr |-> 20 * y]]

\* The SWE table given to synthetic_swe in case c: the record above; the same
\* with February SWE equal in every year; with a negative April value in the
\* first year; further cases shift the February values.
SweCase(c) ==
  [y \in 1..HistYears |->
    [danFeb |-> IF c = 2 THEN 30 ELSE SweRecord[y].danFeb + (IF c > 3 THEN c ELSE 0),
     danApr |-> IF c = 3 /\ y = 1 THEN -20 ELSE SweRecord[y].danApr]]

\* Generation of water year y, month m in record c.  Record 2 has a month-12
\* series without variance; record 3 has months 1, 2 and 9 above 1000 (a record
\* kept in a smaller unit); the other records differ by an offset.
GenTot(y, m, c) ==
  LET plain == 100 + 5 * m + 10 * y + (((y * 7 + m * 3 + c) % 5) - 2) * 3
  IN  IF c = 2 /\ m = 12 THEN 160
      ELSE IF c = 3 /\ m \in {1, 2, 9} THEN plain + thresNone
      ELSE plain

GenRecord(c) ==
  [cols |-> {"wmnth", "tot", "sweFeb", "sweApr"},
   rows |-> AsSeq([k \in 1..(12 * HistYears) |->
              LET y == ((k - 1) \div 12) + 1
                  m == ((k - 1) % 12) + 1
              IN  [wmnth |-> m, tot |-> GenTot(y, m, c),
                   sweFeb |-> SweRecord[y].danFeb, sweApr |-> SweRecord[y].danApr,
                   genPredS |-> NaN, genResidS |-> NaN, genResidSDe |-> NaN,
                   genResidSDeAR |-> NaN]])]

\* Mean price of month m of year y in record c.  Record 2 stops after 18 months
\* (months 7..12 observed once); record 3 holds a negative price.
PowerPrice(y, m, c) ==
  IF c = 3 /\ y = 1 /\ m = 3 THEN -50
  ELSE (150 + 20 * m + ((y * 5 + m * 7 + c) % 4) * 25) * y

PowerRecord(c) ==
  [cols |-> {"wmnth", "priceMean"},
   rows |-> AsSeq([k \in 1..(IF c = 2 THEN 18 ELSE 24) |->
              [wmnth |-> ((k - 1) % 12) + 1,
               priceMean |-> PowerPrice(((k - 1) \div 12) + 1, ((k - 1) % 12) + 1, c),
               logMean |-> NaN, logDe |-> NaN]])]

\* popt of curve_fit for the four ceiling months: <<intercept, slope, ceiling>>.
CurveFit1 == (6 :> <<100, Scale, 155>>) @@ (7 :> <<100, Scale, 155>>)
               @@ (8 :> <<100, Scale, 155>>) @@ (9 :> <<100, Scale, 155>>)

\* A second outcome: month 6 falls with April SWE, month 7 keeps its ceiling above
\* every historical prediction, month 8 caps one historical year only, month 9
\* ends with a ceiling above 999.
CurveFit2 == (6 :> <<182, -5, 155>>) @@ (7 :> <<100, Scale, 190>>)
               @@ (8 :> <<100, Scale, 164>>) @@ (9 :> <<100, Scale, thresNone + 200 * Scale>>)

CurveFits == {CurveFit1, CurveFit2}

\* The outcome for record 3, whose month 9 lies above 1000: the month-9 line
\* rises with April SWE by 0.5 and is capped at a ceiling the later years reach.
CurveFit3 == (6 :> <<100, Scale, 155>>) @@ (7 :> <<100, Scale, 155>>)
               @@ (8 :> <<100, Scale, 155>>)
               @@ (9 :> <<thresNone + 130, 5, thresNone + 155>>)

\* params of the AR(1,3) least-squares fit: <<lag-1 weight, lag-3 weight>>.
ARFits == { <<5, -2>> }

\* params of the SARIMAX fit: <<ar.L1, ma.S.L12>>.
SarimaxFits == { <<6, 3>> }

\* States other code may leave the global generator in.
OtherRngStates == {[seed |-> 2, pos |-> q] : q \in 1..MaxOtherDraws}

\* What is remembered of the calls made: the stage called last with its flags and
\* whether it returned, the table each stage returned first, and the locals of
\* the last recomputation of the generation and price stages.
NoTrace ==
  [last |-> "", redo |-> FALSE, save |-> FALSE, ok |-> FALSE,
   firstSwe |-> <<>>, firstGen |-> <<>>, firstPow |-> <<>>,
   genRun |-> <<>>, powRun |-> <<>>]

\* The inputs of one run: a first choice of every input, or the first choice of
\* all but one.
\* pickled: the directory already holds the sweSynth.pkl of an earlier run on
\* SweRecord; it is also taken together with the February record without variance.
\* Record 3 is also taken with the ceiling fit made for it.
Inputs ==
  LET all == [s : 1..SweCases, g : 1..GenCases, p : 1..PowerCases, popt : CurveFits,
              ar : ARFits, sarimax : SarimaxFits, stream : 0..(StreamCases - 1),
              pickled : BOOLEAN]
      first == [s |-> 1, g |-> 1, p |-> 1, popt |-> CurveFit1, ar |-> <<5, -2>>,
                sarimax |-> <<6, 3>>, stream |-> 0, pickled |-> FALSE]
      differ(a) == Cardinality({f \in DOMAIN a : a[f] # first[f]})
  IN  {a \in all : differ(a) <= 1}
        \cup {[first EXCEPT !.s = 2, !.pickled = TRUE],
              [first EXCEPT !.g = 3, !.popt = CurveFit3]}

Init ==
  /\ \E a \in Inputs :
       /\ swe = SweCase(a.s)
       /\ gen = GenRecord(a.g)
       /\ power = PowerRecord(a.p)
       /\ lib = [popt |-> a.popt, ar |-> a.ar, sarimax |-> a.sarimax, stream |-> a.stream]
       /\ disk = [swe |-> IF a.pickled THEN SweTable(SweRecord, np_random_seed(1)) ELSE <<>>,
                  gen |-> <<>>, pow |-> <<>>]
  /\ rng = [seed |-> 0, pos |-> 0]
  /\ sweSynth = <<>>
  /\ genSynth = <<>>
  /\ powSynth = <<>>
  /\ trace = NoTrace

\* ---- the stages ---------------------------------------------------------------

\* Fault: a stage that does not seed the generator.
SeedOmitted(s, r) == r

\* Fault: every stage seeding with the SWE stage's seed.
SeedShared(s, r) == np_random_seed(1)

\* np.random.seed(s) as the first statement of a stage.
SeedAtEntry(s, r) == np_random_seed(s)

\* Fault: the table pickled whatever the save flag.
to_pickle_always(d, name, save, tab) == [d EXCEPT ![name] = tab]

\* if (save): table.to_pickle(dir_generated_inputs + name) at the end of the redo
\* branch; d is the directory's content.
to_pickle(d, name, save, tab) == IF save THEN [d EXCEPT ![name] = tab] ELSE d

\* The call just made: stage, flags, and whether it returned a table.
Called(t, stage, redo, save, ok) ==
  [t EXCEPT !.last = stage, !.redo = redo, !.save = save, !.ok = ok]

\* In each stage: redo recomputes the table (and save pickles it); without redo
\* the pickle is read, and a missing pickle makes read_pickle raise, so that the
\* caller keeps what it had.  synthetic_swe fits the two gammas before it looks
\* at redo.  A stage whose norm.rvs raises (NaN deviation) has
\* seeded the generator and written the historical columns, and returns nothing.

\* synthetic_swe(dir_generated_inputs, swe, redo, save)
synthetic_swe ==
  \E r \in {SeedAtEntry(1, rng)} : \E tab \in {SweTable(swe, r)} :
    \E raisesFeb \in gamma_fit_raises(Column(swe, "danFeb")),
       raisesApr \in gamma_fit_raises(Column(swe, "danApr")) :
      \E redo \in BOOLEAN, save \in BOOLEAN :
        IF raisesFeb \/ raisesApr \/ (redo /\ IsNaN(CorrNormEquiv(swe)))
        THEN /\ rng' = r
             /\ trace' = Called(trace, "swe", redo, save, FALSE)
             /\ UNCHANGED <<swe, gen, power, lib, disk, sweSynth, genSynth, powSynth>>
        ELSE IF redo
        THEN /\ sweSynth' = tab
             /\ rng' = Advance(r, 2 * N_SAMPLES)
             /\ disk' = to_pickle(disk, "swe", save, tab)
             /\ trace' = [Called(trace, "swe", redo, save, TRUE)
                            EXCEPT !.firstSwe = IF @ = <<>> THEN tab ELSE @]
             /\ UNCHANGED <<swe, gen, power, lib, genSynth, powSynth>>
        ELSE /\ rng' = r
             /\ sweSynth' = IF disk.swe = <<>> THEN sweSynth ELSE disk.swe
             /\ trace' = [Called(trace, "swe", redo, save, disk.swe # <<>>)
                            EXCEPT !.firstSwe = IF @ = <<>> THEN disk.swe ELSE @]
             /\ UNCHANGED <<swe, gen, power, lib, disk, genSynth, powSynth>>

\* synthetic_generation(dir_generated_inputs, dir_figs, gen, sweSynth, redo, save, plot)
synthetic_generation ==
  \E r \in {SeedAtEntry(2, rng)}, plot \in BOOLEAN :
    \E st \in {IF sweSynth = <<>> THEN <<>> ELSE GenStage(gen, sweSynth, r, plot)} :
      \E redo \in BOOLEAN, save \in BOOLEAN :
        IF redo /\ sweSynth # <<>> /\ st.raised
        THEN /\ gen' = st.gen
             /\ rng' = r
             /\ trace' = Called(trace, "gen", redo, save, FALSE)
             /\ UNCHANGED <<swe, power, lib, disk, sweSynth, genSynth, powSynth>>
        ELSE IF redo
        THEN /\ sweSynth # <<>>
             /\ gen' = st.gen
             /\ genSynth' = st.out
             /\ rng' = st.rng
             /\ disk' = to_pickle(disk, "gen", save, st.out)
             /\ trace' = [Called(trace, "gen", redo, save, TRUE)
                            EXCEPT !.firstGen = IF @ = <<>> THEN st.out ELSE @,
                                   !.genRun = st.run]
             /\ UNCHANGED <<swe, power, lib, sweSynth, powSynth>>
        ELSE /\ rng' = r
             /\ genSynth' = IF disk.gen = <<>> THEN genSynth ELSE disk.gen
             /\ trace' = Called(trace, "gen", redo, save, disk.gen # <<>>)
             /\ UNCHANGED <<swe, gen, power, lib, disk, sweSynth, powSynth>>

\* synthetic_power(dir_generated_inputs, power, redo, save)
synthetic_power ==
  \E r \in {SeedAtEntry(3, rng)} : \E st \in {PowerStage(power, r)} :
      \E redo \in BOOLEAN, save \in BOOLEAN :
        IF redo /\ st.raised
        THEN /\ power' = st.power
             /\ rng' = r
             /\ trace' = Called(trace, "pow", redo, save, FALSE)
             /\ UNCHANGED <<swe, gen, lib, disk, sweSynth, genSynth, powSynth>>
        ELSE IF redo
        THEN /\ power' = st.power
             /\ powSynth' = st.out
             /\ rng' = st.rng
             /\ disk' = to_pickle(disk, "pow", save, st.out)
             /\ trace' = [Called(trace, "pow", redo, save, TRUE)
                            EXCEPT !.firstPow = IF @ = <<>> THEN st.out ELSE @,
                                   !.powRun = st.run]
             /\ UNCHANGED <<swe, gen, lib, sweSynth, genSynth>>
        ELSE /\ rng' = r
             /\ powSynth' = IF disk.pow = <<>> THEN powSynth ELSE disk.pow
             /\ trace' = Called(trace, "pow", redo, save, disk.pow # <<>>)
             /\ UNCHANGED <<swe, gen, power, lib, disk, sweSynth, genSynth>>

\* Any other use of the global generator between two stage calls.
OtherRandomUse ==
  /\ rng' \in OtherRngStates
  /\ trace' = Called(trace, "other", FALSE, FALSE, FALSE)
  /\ UNCHANGED <<swe, gen, power, lib, disk, sweSynth, genSynth, powSynth>>

Next ==
  \/ synthetic_swe
  \/ synthetic_generation
  \/ synthetic_power
  \/ OtherRandomUse

Spec == Init /\ [][Next]_vars

\* ---- the empirical copula -------------------------------------------------------

\* Ranks and copula values are ratios of counts: <<numerator, denominator>> with
\* a positive denominator, compared and combined exactly.
RatLe(x, y) == x[1] * y[2] <= y[1] * x[2]

RatEq(x, y) == x[1] * y[2] = y[1] * x[2]

RatSub(x, y) == <<x[1] * y[2] - y[1] * x[2], x[2] * y[2]>>

RatMul(x, y) == <<x[1] * y[1], x[2] * y[2]>>

RECURSIVE RatSum(_)
RatSum(w) ==
  IF w = <<>> THEN <<0, 1>>
  ELSE LET r == RatSum(Tail(w))
       IN  <<Head(w)[1] * r[2] + r[1] * Head(w)[2], Head(w)[2] * r[2]>>

\* Simulated copulas per panel of the copula figure.
ncop == 10000

RECURSIVE CopulaMask(_, _, _, _)
\* while (j < p): w_i = w_i & (empirical_ranks[j] <= point[j])
CopulaMask(w_i, point, empirical_ranks, j) ==
  IF j > Len(point) THEN w_i
  ELSE CopulaMask([i \in DOMAIN w_i |-> w_i[i] /\ RatLe(empirical_ranks[j][i], point[j])],
                  point, empirical_ranks, j + 1)

\* Fault: the observations strictly below the point counted.
empirical_copula_point_strict(point, empirical_ranks) ==
  LET n == Len(empirical_ranks[1])
  IN  <<Cardinality({i \in 1..n : \A j \in 1..Len(point) :
                       ~RatLe(point[j], empirical_ranks[j][i])}), n>>

\* empirical_copula_point(point, empirical_ranks): np.sum(w_i) / n.
empirical_copula_point(point, empirical_ranks) ==
  LET n == Len(empirical_ranks[1])
      all == [i \in 1..n |-> ~RatLe(empirical_ranks[1][i], <<-9999999, 1>>)]
      w_i == CopulaMask(all, point, empirical_ranks, 1)
  IN  <<Cardinality({i \in 1..n : w_i[i]}), n>>

\* empirical_copula_many(many, empirical_ranks)
empirical_copula_many(many, empirical_ranks) ==
  AsSeq([i \in 1..Len(many[1]) |->
    empirical_copula_point(<<many[1][i], many[2][i]>>, empirical_ranks)])

\* RFeb / RApr: (column <= column.iloc[i]).sum() / (len(RFeb) + 1)
EmpiricalRanks(column) ==
  AsSeq([i \in 1..Len(column) |->
    <<Cardinality({j \in 1..Len(column) : column[j] <= column[i]}), Len(column) + 1>>])

\* Fault: the correction term of the relation with n + 1 in place of n + 3.
tau_n_shifted(w) ==
  LET nw == Len(w)
  IN  RatSub(RatMul(<<4 * nw, nw - 1>>, RatMul(RatSum(w), <<1, nw>>)), <<nw + 1, nw - 1>>)

\* wbar = w.sum() / nw;  tau_n = 4 * nw / (nw - 1) * wbar - (nw + 3) / (nw - 1)
tau_n(w) ==
  LET nw == Len(w)
  IN  RatSub(RatMul(<<4 * nw, nw - 1>>, RatMul(RatSum(w), <<1, nw>>)), <<nw + 3, nw - 1>>)

\* The historical samples handed to the copula functions: up to MaxPairs years,
\* February values apart or with one tie, April values in any order without
\* ties, or with the first two equal.
CopulaSamples ==
  UNION {{AsSeq([i \in 1..n |-> [danFeb |-> 10 * (IF tie /\ i = 2 THEN 1 ELSE i),
                                 danApr |-> 10 * f[i] + 5]]) :
            f \in {h \in [1..n -> 1..n] :
                     h[1] = h[2] \/ \A i, j \in 1..n : i # j => h[i] # h[j]},
            tie \in BOOLEAN} : n \in 2..MaxPairs}

\* The rank pairs of the sample, as the figure computes them.
SampleRanks == <<EmpiricalRanks(Column(swe, "danFeb")), EmpiricalRanks(Column(swe, "danApr"))>>

\* Points on the grid of the sample's ranks, 0 and 1 included.
CopulaPoints ==
  {<<<<a, Len(swe) + 1>>, <<b, Len(swe) + 1>>>> : a, b \in 0..(Len(swe) + 1)}

\* Arguments of empirical_copula_many: the ranks themselves, the ranks reversed,
\* and the first two of them.
CopulaManies ==
  LET r == SampleRanks
      n == Len(swe)
  IN  {r,
       <<AsSeq([i \in 1..n |-> r[1][n + 1 - i]]), AsSeq([i \in 1..n |-> r[2][n + 1 - i]])>>,
       <<SubSeq(r[1], 1, 2), SubSeq(r[2], 1, 2)>>}

\* What is remembered of the calls to the copula functions: the last arguments
\* and value of each.
NoCopula ==
  [point |-> <<>>, w_i |-> <<>>, many |-> <<>>, w |-> <<>>,
   RFeb |-> <<>>, RApr |-> <<>>, wSample |-> <<>>, tau_n |-> <<>>]

CopulaInit ==
  /\ swe \in CopulaSamples
  /\ gen = GenRecord(1)
  /\ power = PowerRecord(1)
  /\ lib = [popt |-> CurveFit1, ar |-> <<5, -2>>, sarimax |-> <<6, 3>>, stream |-> 0]
  /\ disk = [swe |-> <<>>, gen |-> <<>>, pow |-> <<>>]
  /\ rng = [seed |-> 0, pos |-> 0]
  /\ sweSynth = <<>>
  /\ genSynth = <<>>
  /\ powSynth = <<>>
  /\ trace = NoCopula

\* A call empirical_copula_point(point, [RFeb, RApr]).
CopulaPointCall ==
  \E point \in CopulaPoints :
    /\ trace' = [trace EXCEPT !.point = point,
                              !.w_i = empirical_copula_point(point, SampleRanks)]
    /\ UNCHANGED <<swe, gen, power, lib, rng, disk, sweSynth, genSynth, powSynth>>

\* A call empirical_copula_many(many, [RFeb, RApr]).
CopulaManyCall ==
  \E many \in CopulaManies :
    /\ trace' = [trace EXCEPT !.many = many,
                              !.w = empirical_copula_many(many, SampleRanks)]
    /\ UNCHANGED <<swe, gen, power, lib, rng, disk, sweSynth, genSynth, powSynth>>

\* plot_empirical_synthetic_copula_swe(dir_figs, swe, startTime): the generator
\* seeded, the gammas fitted and the normal sample drawn (each of which may
\* raise), then the ranks, the copula values of the sample and tau_n, then the
\* three simulated samples of the figure.
plot_empirical_synthetic_copula_swe ==
  \E r \in {SeedAtEntry(1, rng)} :
    \E raisesFeb \in gamma_fit_raises(Column(swe, "danFeb")),
       raisesApr \in gamma_fit_raises(Column(swe, "danApr")) :
      IF raisesFeb \/ raisesApr \/ IsNaN(CorrNormEquiv(swe))
      THEN /\ rng' = r
           /\ UNCHANGED <<swe, gen, power, lib, disk, sweSynth, genSynth, powSynth, trace>>
      ELSE /\ rng' = Advance(r, 2 * N_SAMPLES + 3 * 2 * Len(swe) * ncop)
           /\ trace' = [trace EXCEPT
                          !.RFeb = SampleRanks[1],
                          !.RApr = SampleRanks[2],
                          !.wSample = empirical_copula_many(SampleRanks, SampleRanks),
                          !.tau_n = tau_n(empirical_copula_many(SampleRanks, SampleRanks))]
           /\ UNCHANGED <<swe, gen, power, lib, disk, sweSynth, genSynth, powSynth>>

CopulaNext ==
  \/ CopulaPointCall
  \/ CopulaManyCall
  \/ plot_empirical_synthetic_copula_swe

CopulaSpec == CopulaInit /\ [][CopulaNext]_vars

\* ---- properties -----------------------------------------------------------------

\* The months the code whitens in two groups: regime months whose fitted ceiling
\* is not above 999.
TwoGroupMonth(m) == InSeq(m, MonthsCeiling) /\ ~Gt(trace.genRun.par[m].thres, thresTest)

\* C1: after synthetic_generation has run with redo, every value of the gen column
\* of the returned table lies within [min(gen.tot), max(gen.tot)] of the
\* historical record, for every simulated row of every month.
C1_GenWithinHistoricalLimits ==
  trace.genRun # <<>> =>
    \A k \in 1..Len(genSynth) :
      /\ ~IsNaN(genSynth[k].gen)
      /\ trace.genRun.lo <= genSynth[k].gen
      /\ genSynth[k].gen <= trace.genRun.hi

\* C2: with the same historical inputs, every run of the full pipeline returns the
\* same three tables as the first run did.
C2_PipelineDeterministic ==
  (sweSynth # <<>> /\ genSynth # <<>> /\ powSynth # <<>>) =>
    /\ sweSynth = trace.firstSwe
    /\ genSynth = trace.firstGen
    /\ powSynth = trace.firstPow

\* The whole pipeline has run and synthetic_swe has just been run again with redo.
C2_SweRunAgain ==
  /\ genSynth # <<>>
  /\ powSynth # <<>>
  /\ trace.last = "swe"
  /\ rng = Advance(np_random_seed(1), 2 * N_SAMPLES)
  /\ sweSynth[1] # sweSynth[2]

\* Rounding slack of a whitening round trip through a group of deviation std: half
\* a grid step of the quotient scaled by std, and the rounding of the product.
RoundTripSlack(std) == (std \div (2 * Scale)) + 1

\* C3: round trip: for every historical residual genResidS, the whitened value
\* stored in genResidSDe, multiplied by the group deviation and added to the
\* group mean (group chosen from the same predicted value), gives genResidS back.
C3_WhiteningRoundTrip ==
  trace.genRun # <<>> =>
    \A k \in 1..Len(gen.rows) :
      LET row == gen.rows[k]
          g == GroupOf(row.genPredS, trace.genRun.par[row.wmnth].thres)
          back == Dewhiten(row.genResidSDe, row.genPredS, row.wmnth,
                           trace.genRun.stats, trace.genRun.par)
      IN  /\ g # "none"
          /\ ~IsNaN(back)
          /\ Abs(back - row.genResidS) <= RoundTripSlack(trace.genRun.stats[row.wmnth][g].std)

\* C4: in a month whitened in two groups every historical row and every synthetic
\* row is in exactly one of the groups above / below threshold - eps.
C4_ThresholdSidesPartition ==
  trace.genRun # <<>> =>
    /\ \A k \in 1..Len(gen.rows) :
         TwoGroupMonth(gen.rows[k].wmnth) =>
           GroupOf(gen.rows[k].genPredS, trace.genRun.par[gen.rows[k].wmnth].thres)
             \in {"above", "below"}
    /\ \A k \in 1..Len(genSynth) :
         TwoGroupMonth(genSynth[k].wmnth) =>
           GroupOf(genSynth[k].genPred, trace.genRun.par[genSynth[k].wmnth].thres)
             \in {"above", "below"}

\* A synthetic row of a two-group month predicted at exactly threshold - 2 eps.
AtTwoEps(k) ==
  /\ TwoGroupMonth(genSynth[k].wmnth)
  /\ genSynth[k].genPred = trace.genRun.par[genSynth[k].wmnth].thres - 2 * eps

C6_ConstantMonthPredIsMean ==
  trace.genRun # <<>> =>
    \A k \in 1..Len(genSynth) :
      InSeq(genSynth[k].wmnth, MonthsConst) =>
        genSynth[k].genPred =
          Mean(ColumnAt(gen.rows, MonthIdx(gen.rows, genSynth[k].wmnth), "tot"))

\* C7: every powPrice returned by synthetic_power is strictly greater than zero.
C7_PricePositive ==
  powSynth # <<>> =>
    \A k \in 1..Len(powSynth) : ~IsNaN(powSynth[k].powPrice) /\ powSynth[k].powPrice > 0

\* C8: in the plain-linear and constant months the prediction of every synthetic
\* row is intercept + slope * predictor: the ceiling 1000 never lowers it.
C8_SentinelNeverCaps ==
  trace.genRun # <<>> =>
    \A k \in 1..Len(genSynth) :
      ~InSeq(genSynth[k].wmnth, MonthsCeiling) =>
        LET q == trace.genRun.par[genSynth[k].wmnth]
        IN  genSynth[k].genPred =
              Add(Add(q.int, Mul(q.sweFebSlp, genSynth[k].sweFeb)),
                  Mul(q.sweAprSlp, genSynth[k].sweApr))

\* C9: the synthetic generation table has N_SAMPLES * 12 rows, row k for year
\* (k - 1) div 12 and month ((k - 1) mod 12) + 1, each carrying the SWE pair of
\* its year from the synthetic SWE table.
C9_OneRowPerYearMonth ==
  genSynth # <<>> =>
    /\ Len(genSynth) = N_SAMPLES * 12
    /\ \A k \in 1..Len(genSynth) :
         /\ genSynth[k].wyr = (k - 1) \div 12
         /\ genSynth[k].wmnth = ((k - 1) % 12) + 1
         /\ genSynth[k].sweFeb = trace.firstSwe[genSynth[k].wyr + 1].danFeb
         /\ genSynth[k].sweApr = trace.firstSwe[genSynth[k].wyr + 1].danApr

\* A table whose simulated years carry different SWE pairs.
C9_YearsDiffer ==
  /\ genSynth # <<>>
  /\ genSynth[1].sweFeb # genSynth[13].sweFeb
  /\ genSynth[1].sweApr # genSynth[13].sweApr
  /\ genSynth[12].sweApr = genSynth[1].sweApr

\* C10: each stage leaves the generator on its own seed (1, 2, 3), and the table
\* a stage returns is the one its first run returned, whatever ran before it.
C10_OwnSeedAnyOrder ==
  /\ trace.last = "swe" => rng.seed = 1
  /\ trace.last = "gen" => rng.seed = 2
  /\ trace.last = "pow" => rng.seed = 3
  /\ sweSynth # <<>> => sweSynth = trace.firstSwe
  /\ genSynth # <<>> => genSynth = trace.firstGen
  /\ powSynth # <<>> => powSynth = trace.firstPow

\* synthetic_generation has just run with redo, after synthetic_power.
C10_GenAfterPower ==
  /\ trace.last = "gen"
  /\ rng = Advance(np_random_seed(2), (N_SAMPLES + 1) * 12 + 3)
  /\ powSynth # <<>>
  /\ trace.powRun # <<>>

\* The table each stage returned last, by the stage's name on disk.
Returned == [swe |-> sweSynth, gen |-> genSynth, pow |-> powSynth]

\* A call of a stage with its flags, as one step.
C11_Call ==
  trace'.last \in {"swe", "gen", "pow"} =>
    LET stage == trace'.last
    IN  IF trace'.redo
        THEN /\ trace'.ok /\ trace'.save => disk' = [disk EXCEPT ![stage] = Returned'[stage]]
             /\ ~(trace'.ok /\ trace'.save) => disk' = disk
        ELSE /\ disk' = disk
             /\ <<swe, gen, power>>' = <<swe, gen, power>>
             /\ trace'.ok => Returned'[stage] = disk[stage]

\* The historical SWE sample of a column is degenerate or holds a negative value.
SweSampleUnfit(sample) ==
  \/ \E k \in 1..Len(sample) : sample[k] < 0
  \/ \A j, k \in 1..Len(sample) : sample[j] = sample[k]

\* C12: whenever the February or the April historical sample has no variance or
\* holds a negative value, a call of synthetic_swe fails and returns no table.
C12_DegenerateSweFitFails ==
  (trace.last = "swe" /\ (\/ SweSampleUnfit(Column(swe, "danFeb"))
                          \/ SweSampleUnfit(Column(swe, "danApr"))))
    => ~trace.ok

\* C13: a table returned by synthetic_generation holds no row made from a group
\* of historical residuals without variance, with fewer than two observations
\* or without any: the deviation used for every synthetic row is defined and
\* not zero.
C13_NoRowFromDegenerateGroup ==
  trace.genRun # <<>> =>
    \A k \in 1..Len(genSynth) :
      LET m == genSynth[k].wmnth
          g == GroupOf(genSynth[k].genPred, trace.genRun.par[m].thres)
      IN  g # "none" =>
            /\ ~IsNaN(trace.genRun.stats[m][g].std)
            /\ trace.genRun.stats[m][g].std # 0

\* C14: a stage that has fitted and simulated was given a well-formed record: the
\* price stage a non-empty table of positive prices, the generation stage a
\* non-empty table, both with month indices in 1..12.
C14_FitOnlyOnValidRecord ==
  /\ trace.powRun # <<>> =>
        /\ Len(power.rows) > 0
        /\ \A k \in 1..Len(power.rows) :
             power.rows[k].priceMean > 0 /\ power.rows[k].wmnth \in 1..12
  /\ trace.genRun # <<>> =>
        /\ Len(gen.rows) > 0
        /\ \A k \in 1..Len(gen.rows) : gen.rows[k].wmnth \in 1..12

\* The group of a predicted value as the regimes define it: the threshold side in
\* a ceiling month, the whole month otherwise.
RegimeGroup(m, pred, thres) ==
  IF ~InSeq(m, MonthsCeiling) THEN "all"
  ELSE IF Gt(pred, Sub(thres, eps)) THEN "above"
  ELSE "below"

\* The historical residuals of month m in group g, grouped by the historical
\* predicted value.
RegimeResid(m, g, thres) ==
  LET InGroup(row) == row.wmnth = m /\ RegimeGroup(m, row.genPredS, thres) = g
      sel == SelectSeq(gen.rows, InGroup)
  IN  [j \in 1..Len(sel) |-> sel[j].genResidS]

\* C15: every synthetic row's de-whitened residual is defined and is its whitened
\* value times sigma plus mu, with mu and sigma the mean and deviation of the
\* historical residuals of the row's month, or of the row's month and threshold
\* side (side of the row's own prediction) in a ceiling month.
C15_DewhitenWithHistoricalStats ==
  trace.genRun # <<>> =>
    \A k \in 1..Len(genSynth) :
      LET m == genSynth[k].wmnth
          thres == trace.genRun.par[m].thres
          res == RegimeResid(m, RegimeGroup(m, genSynth[k].genPred, thres), thres)
      IN  /\ ~IsNaN(trace.genRun.residS[k])
          /\ trace.genRun.residS[k] =
               Add(Mul(trace.genRun.residSDe[k], Std(res)), Mean(res))

\* C16: every historical row of a ceiling month (6..9) is whitened with the mean
\* and deviation of its threshold side, and every row of another month with
\* those of its month, whatever ceiling the fit returned.
C16_TreatmentFollowsRegime ==
  trace.genRun # <<>> =>
    \A k \in 1..Len(gen.rows) :
      LET m == gen.rows[k].wmnth
          thres == trace.genRun.par[m].thres
          res == RegimeResid(m, RegimeGroup(m, gen.rows[k].genPredS, thres), thres)
      IN  gen.rows[k].genResidSDe = Div(Sub(gen.rows[k].genResidS, Mean(res)), Std(res))

\* The rows of the parameter table for month m.
ParamRows(m) ==
  {j \in 1..Len(trace.genRun.params) : trace.genRun.params[j].wmnth = m}

\* The regimes whose loop runs over month m.
RegimesOf(m) ==
  {r \in {"ceiling", "feb", "apr", "const"} :
     \/ r = "ceiling" /\ InSeq(m, MonthsCeiling)
     \/ r = "feb" /\ InSeq(m, MonthsFeb)
     \/ r = "apr" /\ InSeq(m, MonthsApr)
     \/ r = "const" /\ InSeq(m, MonthsConst)}

\* C17: the parameter table has exactly one row per water month 1..12: months
\* 6-9 the ceiling fit on April SWE, 2-4 linear on February SWE, 5, 10, 11 linear
\* on April SWE, 1 and 12 constant; at most one slope of a row is not zero, every
\* row without ceiling records 1000, and every historical row has a prediction
\* from exactly one regime.
C17_OneParameterRowPerMonth ==
  trace.genRun # <<>> =>
    /\ Len(trace.genRun.params) = 12
    /\ \A m \in 1..12 :
         /\ Cardinality(ParamRows(m)) = 1
         /\ Cardinality(RegimesOf(m)) = 1
         /\ LET q == trace.genRun.par[m]
            IN  /\ q.sweFebSlp = 0 \/ q.sweAprSlp = 0
                /\ m \in 6..9 => /\ q.int = lib.popt[m][1]
                                 /\ q.sweAprSlp = lib.popt[m][2]
                                 /\ q.sweFebSlp = 0
                                 /\ q.thres = lib.popt[m][3]
                /\ m \in 2..4 => q.sweAprSlp = 0 /\ q.thres = thresNone
                /\ m \in {5, 10, 11} => q.sweFebSlp = 0 /\ q.thres = thresNone
                /\ m \in {1, 12} =>
                     /\ q.sweFebSlp = 0 /\ q.sweAprSlp = 0 /\ q.thres = thresNone
                     /\ q.int = Mean(ColumnAt(gen.rows, MonthIdx(gen.rows, m), "tot"))
    /\ \A k \in 1..Len(gen.rows) :
         gen.rows[k].wmnth \in 1..12 => ~IsNaN(gen.rows[k].genPredS)

\* A table whose linear months have slopes that are not zero, on February SWE in
\* month 2 and on April SWE in month 5.
C17_SlopesFitted ==
  /\ trace.genRun # <<>>
  /\ trace.genRun.par[2].sweFebSlp # 0
  /\ trace.genRun.par[5].sweAprSlp # 0
  /\ trace.genRun.par[6].thres < thresNone
  /\ trace.genRun.par[1].int > 0

\* C18: the prediction of every synthetic row of month m is
\* min(int + sweFebSlp * sweFeb + sweAprSlp * sweApr, thres) with the row of the
\* fitted parameter table for m and the SWE pair of the row's year, and so is
\* not above thres.
C18_PredictionFromFittedParameters ==
  trace.genRun # <<>> =>
    \A k \in 1..Len(genSynth) :
      LET q == ParamOf(trace.genRun.params, genSynth[k].wmnth)
          pair == trace.genRun.arg[genSynth[k].wyr + 1]
          line == Add(Add(q.int, Mul(q.sweFebSlp, pair.danFeb)),
                      Mul(q.sweAprSlp, pair.danApr))
      IN  /\ ~IsNaN(line)
          /\ genSynth[k].genPred = IF line < q.thres THEN line ELSE q.thres
          /\ genSynth[k].genPred <= q.thres

\* A ceiling month with one simulated year capped at the ceiling and another below it.
C18_CappedAndUncapped ==
  /\ trace.genRun # <<>>
  /\ \E j, k \in 1..Len(genSynth) :
       /\ genSynth[j].wmnth = genSynth[k].wmnth
       /\ genSynth[j].genPred = trace.genRun.par[genSynth[j].wmnth].thres
       /\ genSynth[k].genPred < trace.genRun.par[genSynth[k].wmnth].thres
       /\ genSynth[k].sweApr < genSynth[j].sweApr

\* C19: the whitened residual buffer satisfies
\* residual[t] = AR1 * residual[t-1] + AR3 * residual[t-3] + innovation[t] from the
\* fourth value on (index 3 counted from 0), with one innovation per buffer row,
\* each its own draw.
C19_ARRecursion ==
  trace.genRun # <<>> =>
    LET buf == trace.genRun.buf
        innov == trace.genRun.innov
    IN  /\ Len(buf) = (N_SAMPLES + 1) * 12
        /\ Len(innov) = Len(buf)
        /\ \A t \in 1..Len(innov) :
             innov[t] = Mul(trace.genRun.AR_std, StdNormal(2, t - 1))
        /\ \A t \in 4..Len(buf) :
             buf[t] = Add(Add(Mul(lib.ar[1], buf[t - 1]), Mul(lib.ar[2], buf[t - 3])),
                          innov[t])

\* A buffer in which the earlier values weigh in and the innovations of two
\* months of one year differ.
C19_HistoryWeighsIn ==
  /\ trace.genRun # <<>>
  /\ trace.genRun.buf[4] # trace.genRun.innov[4]
  /\ trace.genRun.buf[1] # trace.genRun.buf[2]
  /\ trace.genRun.innov[13] # trace.genRun.innov[14]
  /\ ~IsNaN(trace.genRun.buf[(N_SAMPLES + 1) * 12])

\* C20: the first three buffer values are seeded draws of their own, the buffer
\* has (N_SAMPLES + 1) * 12 values and exactly the first 12 are discarded: the
\* N_SAMPLES * 12 retained values are buffer values 13 onward, in order, each one
\* a value of the recursion.
C20_BurnInDiscarded ==
  trace.genRun # <<>> =>
    LET buf == trace.genRun.buf
        kept == trace.genRun.residSDe
    IN  /\ Len(buf) = (N_SAMPLES + 1) * 12
        /\ \A t \in 1..3 :
             buf[t] = Mul(trace.genRun.AR_std, StdNormal(2, (N_SAMPLES + 1) * 12 + t - 1))
        /\ Len(kept) = N_SAMPLES * 12
        /\ \A k \in 1..Len(kept) :
             /\ kept[k] = buf[k + 12]
             /\ kept[k] = Add(Add(Mul(lib.ar[1], buf[k + 11]), Mul(lib.ar[2], buf[k + 9])),
                              trace.genRun.innov[k + 12])

\* A run whose initial draws and first year differ from the first retained values.
C20_InitialValuesDropped ==
  /\ trace.genRun # <<>>
  /\ trace.genRun.buf[1] # 0
  /\ trace.genRun.buf[1] # trace.genRun.buf[3]
  /\ \A t \in 1..3 : trace.genRun.residSDe[t] # trace.genRun.buf[t]
  /\ trace.genRun.residSDe[1] # trace.genRun.buf[4]

\* The sum genPred + residS of row k of the run, before the clipping.
Unclipped(k) == Add(genSynth[k].genPred, trace.genRun.residS[k])

\* np.maximum: NaN if either argument is NaN.
Maximum(a, b) == IF IsNaN(a) \/ IsNaN(b) THEN NaN ELSE IF a > b THEN a ELSE b

\* C21: the gen column is min(max(genPred + residS, min(gen.tot)), max(gen.tot)):
\* a sum below the historical minimum becomes the minimum, one above the maximum
\* becomes the maximum, one inside stays, and the columns genPred, sweFeb, sweApr,
\* wyr, wmnth keep the values they had before the clipping.
C21_ClipOnlyGen ==
  trace.genRun # <<>> =>
    LET lo == trace.genRun.lo
        hi == trace.genRun.hi
    IN  \A k \in 1..Len(genSynth) :
          LET row == genSynth[k]
              v == Unclipped(k)
              q == trace.genRun.par[row.wmnth]
          IN  /\ row.gen = Minimum(Maximum(v, lo), hi)
              /\ Lt(v, lo) => row.gen = lo
              /\ Gt(v, hi) => row.gen = hi
              /\ (~IsNaN(v) /\ lo <= v /\ v <= hi) => row.gen = v
              /\ row.wyr = (k - 1) \div 12
              /\ row.wmnth = ((k - 1) % 12) + 1
              /\ row.sweFeb = trace.genRun.arg[row.wyr + 1].danFeb
              /\ row.sweApr = trace.genRun.arg[row.wyr + 1].danApr
              /\ row.genPred =
                   Minimum(Add(Add(q.int, Mul(q.sweFebSlp, row.sweFeb)),
                               Mul(q.sweAprSlp, row.sweApr)), q.thres)

\* A run with a row raised to the minimum next to a row left as it was, the
\* prediction of the raised row being above the minimum.
C21_RaisedToMinimum ==
  /\ trace.genRun # <<>>
  /\ \E k \in 1..Len(genSynth) :
       /\ Lt(Unclipped(k), trace.genRun.lo)
       /\ genSynth[k].gen = trace.genRun.lo
       /\ Gt(genSynth[k].genPred, trace.genRun.lo)
  /\ \E k \in 1..Len(genSynth) :
       /\ Gt(Unclipped(k), trace.genRun.lo)
       /\ Lt(Unclipped(k), trace.genRun.hi)
       /\ genSynth[k].gen = Unclipped(k)

\* C22: the deseasonalized log-price buffer satisfies
\* logDe[t] = AR1 * logDe[t-1] + MA12 * innovation[t-12] + innovation[t] from the
\* thirteenth row on (index 12 counted from 0), innovation[t-12] being column 3
\* of the row twelve rows earlier.
C22_PriceRecursion ==
  trace.powRun # <<>> =>
    LET buf == trace.powRun.buf
        innov == trace.powRun.innov
    IN  /\ Len(buf) = (N_SAMPLES + burn) * 12
        /\ Len(innov) = Len(buf)
        /\ \A t \in 13..Len(buf) :
             buf[t] = Add(Add(Mul(lib.sarimax[1], buf[t - 1]),
                              Mul(lib.sarimax[2], innov[t - 12])), innov[t])

\* A price run in which the moving-average term weighs in, once with a
\* historical residual and once with a drawn innovation.
C22_MovingAverageWeighsIn ==
  /\ trace.powRun # <<>>
  /\ ~IsNaN(trace.powRun.buf[(N_SAMPLES + burn) * 12])
  /\ Mul(lib.sarimax[2], trace.powRun.innov[12]) # 0
  /\ Mul(lib.sarimax[2], trace.powRun.innov[13]) # 0
  /\ trace.powRun.innov[13] # trace.powRun.innov[12]
  /\ Mul(lib.sarimax[1], trace.powRun.buf[24]) # 0

\* C23: buffer rows 0..11 hold the last 12 historical deseasonalized log prices
\* and the last 12 model residuals, every later row has a drawn innovation of its
\* own, the first 4 years (48 rows) are discarded, and the returned table has
\* N_SAMPLES * 12 rows labelled wyr 0..N_SAMPLES-1, wmnth 1..12, none of them a
\* seeded row.
C23_PriceBurnIn ==
  trace.powRun # <<>> =>
    LET buf == trace.powRun.buf
        innov == trace.powRun.innov
        kept == trace.powRun.kept
        n == Len(power.rows)
    IN  /\ Len(buf) = (N_SAMPLES + burn) * 12
        /\ \A t \in 1..12 :
             /\ buf[t] = power.rows[n - 12 + t].logDe
             /\ innov[t] = trace.powRun.resid[n - 12 + t]
        /\ \A t \in 13..Len(buf) :
             innov[t] = Mul(trace.powRun.logDeERRSTD, StdNormal(3, t - 13))
        /\ Len(kept) = N_SAMPLES * 12
        /\ Len(powSynth) = N_SAMPLES * 12
        /\ \A k \in 1..Len(kept) :
             /\ kept[k].logDe = buf[k + 48]
             /\ powSynth[k].wyr = (k - 1) \div 12
             /\ powSynth[k].wmnth = ((k - 1) % 12) + 1
             /\ kept[k].wyr = powSynth[k].wyr
             /\ kept[k].wmnth = powSynth[k].wmnth

\* A price run whose seeded year differs from the first year returned.
C23_SeededYearDropped ==
  /\ trace.powRun # <<>>
  /\ \A t \in 1..12 : ~IsNaN(trace.powRun.buf[t])
  /\ \E t \in 1..12 : trace.powRun.kept[t].logDe # trace.powRun.buf[t]
  /\ \E t \in 1..12 : trace.powRun.kept[t].logDe # trace.powRun.buf[t + 12]
  /\ trace.powRun.innov[13] # trace.powRun.innov[14]

\* C24: for every month m and every historical log price x of month m,
\* ((x - mean_m) / std_m) * std_m + mean_m gives x back (up to the rounding of the
\* grid), and every synthetic row is re-seasonalized with the statistics of its
\* own month label.
C24_PriceRoundTrip ==
  trace.powRun # <<>> =>
    /\ \A k \in 1..Len(power.rows) :
         LET row == power.rows[k]
             back == Reseasonalize(row.logDe, row.wmnth, power.rows)
         IN  ~IsNaN(row.logMean) =>
               /\ ~IsNaN(back)
               /\ Abs(back - row.logMean)
                    <= RoundTripSlack(Std(MonthLog(power.rows, row.wmnth)))
    /\ \A k \in 1..Len(trace.powRun.kept) :
         trace.powRun.logPrice[k] =
           Reseasonalize(trace.powRun.kept[k].logDe, trace.powRun.kept[k].wmnth, power.rows)

\* C25: the crossing point (thres - int) / slope is evaluated only for months
\* whose slope is not zero: no panel of a zero-slope month holds a quotient, and
\* none draws from one.
C25_CrossingOnlyForSlopedMonths ==
  trace.genRun # <<>> =>
    \A k \in 1..Len(trace.genRun.panels) : trace.genRun.panels[k].slp # 0

\* C26: the whitening re-computation between the prediction loop and the
\* re-seasonalizing loop runs with i = 12: it assigns the rows of month 12 and no
\* other, every whitened residual keeps the value it had when the AR model was
\* fitted, and the group moments the synthetic residuals are built from are
\* those of the table as it is left.
C26_StrayRecomputeChangesNothing ==
  trace.genRun # <<>> =>
    /\ trace.genRun.stray = {k \in 1..Len(gen.rows) : gen.rows[k].wmnth = 12}
    /\ \A k \in 1..Len(gen.rows) : gen.rows[k].genResidSDe = trace.genRun.sdeFit[k]
    /\ \A k \in 1..Len(gen.rows) :
         gen.rows[k].genResidSDe = Whiten(gen.rows[k], trace.genRun.stats, trace.genRun.par)
    /\ \A k \in 1..Len(genSynth) :
         trace.genRun.residS[k] =
           Dewhiten(trace.genRun.residSDe[k], genSynth[k].genPred, genSynth[k].wmnth,
                    trace.genRun.stats, trace.genRun.par)

\* A run whose month 12 rows hold whitened residuals that differ from their
\* residuals, next to rows of a month the re-computation leaves alone.
C26_MonthTwelveRewritten ==
  /\ trace.genRun # <<>>
  /\ trace.genRun.stray # {}
  /\ \A k \in trace.genRun.stray :
       /\ ~IsNaN(gen.rows[k].genResidSDe)
       /\ gen.rows[k].genResidSDe # Sub(gen.rows[k].genResidS,
                                         trace.genRun.stats[12].all.mean)
  /\ \E k \in 1..Len(gen.rows) :
       gen.rows[k].wmnth = 11 /\ ~IsNaN(gen.rows[k].genResidSDe)

\* C27: genResidSDeAR[i] = genResidSDe[i] - AR1 * genResidSDe[i-1]
\* - AR3 * genResidSDe[i-3] for every row from the fourth on and is NaN for the
\* first three; the regression is given, for each k, the value at k+3 with the
\* values at k+2 (lag 1) and k (lag 3), and fits two weights and no intercept.
C27_ARResidualColumn ==
  trace.genRun # <<>> =>
    LET n == Len(gen.rows)
        design == trace.genRun.design
    IN  /\ \A k \in 1..3 : IsNaN(gen.rows[k].genResidSDeAR)
        /\ \A k \in 4..n :
             gen.rows[k].genResidSDeAR =
               Sub(Sub(gen.rows[k].genResidSDe, Mul(lib.ar[1], gen.rows[k - 1].genResidSDe)),
                   Mul(lib.ar[2], gen.rows[k - 3].genResidSDe))
        /\ Len(lmGenAR) = 2
        /\ Len(design) = n - 3
        /\ \A k \in 1..Len(design) :
             /\ design[k].dat = trace.genRun.sdeFit[k + 3]
             /\ design[k].dat_1 = trace.genRun.sdeFit[k + 2]
             /\ design[k].dat_3 = trace.genRun.sdeFit[k]

\* A run with a defined AR residual in whose row both lags weigh in and the
\* values two and three rows back differ.
C27_BothLagsWeighIn ==
  /\ trace.genRun # <<>>
  /\ \E k \in 4..Len(gen.rows) :
       /\ ~IsNaN(gen.rows[k].genResidSDeAR)
       /\ Mul(lib.ar[1], gen.rows[k - 1].genResidSDe) # 0
       /\ Mul(lib.ar[2], gen.rows[k - 3].genResidSDe) # 0
       /\ Mul(lib.ar[2], gen.rows[k - 3].genResidSDe)
            # Mul(lib.ar[2], gen.rows[k - 2].genResidSDe)

\* C28: the synthetic generation table and the synthetic price table have the
\* same number of rows, N_SAMPLES * 12, and the same key at every row position
\* r (counted from 0): wyr = r div 12 and wmnth = (r mod 12) + 1.
C28_TablesAlignRowByRow ==
  (genSynth # <<>> /\ powSynth # <<>>) =>
    /\ Len(genSynth) = N_SAMPLES * 12
    /\ Len(powSynth) = Len(genSynth)
    /\ \A k \in 1..Len(genSynth) :
         /\ genSynth[k].wyr = (k - 1) \div 12
         /\ genSynth[k].wmnth = ((k - 1) % 12) + 1
         /\ powSynth[k].wyr = genSynth[k].wyr
         /\ powSynth[k].wmnth = genSynth[k].wmnth

\* Both tables returned, with defined values in the last row of each.
C28_BothTablesReturned ==
  /\ genSynth # <<>>
  /\ powSynth # <<>>
  /\ genSynth[N_SAMPLES * 12].wyr = N_SAMPLES - 1
  /\ powSynth[N_SAMPLES * 12].wmnth = 12
  /\ ~IsNaN(genSynth[N_SAMPLES * 12].gen)
  /\ ~IsNaN(powSynth[N_SAMPLES * 12].powPrice)

\* The fraction of the observations that are at or below the point in every
\* coordinate.
FractionAtOrBelow(point, ranks) ==
  <<Cardinality({j \in 1..Len(ranks[1]) :
                  \A k \in 1..Len(point) : RatLe(ranks[k][j], point[k])}),
    Len(ranks[1])>>

\* C29: empirical_copula_point returns the fraction of the n observations at or
\* below the point in every coordinate: it lies in [0, 1], does not decrease when
\* a coordinate of the point grows, and is at least 1/n at an observation;
\* empirical_copula_many returns that value for each pair, in input order.
C29_CopulaIsFractionAtOrBelow ==
  /\ trace.point # <<>> =>
       /\ trace.w_i = FractionAtOrBelow(trace.point, SampleRanks)
       /\ RatLe(<<0, 1>>, trace.w_i) /\ RatLe(trace.w_i, <<1, 1>>)
       /\ \A q \in CopulaPoints :
            (RatLe(trace.point[1], q[1]) /\ RatLe(trace.point[2], q[2]))
              => RatLe(trace.w_i, FractionAtOrBelow(q, SampleRanks))
       /\ (\E j \in 1..Len(swe) :
             trace.point = <<SampleRanks[1][j], SampleRanks[2][j]>>)
             => RatLe(<<1, Len(swe)>>, trace.w_i)
  /\ trace.many # <<>> =>
       /\ Len(trace.w) = Len(trace.many[1])
       /\ \A i \in 1..Len(trace.w) :
            trace.w[i] = FractionAtOrBelow(<<trace.many[1][i], trace.many[2][i]>>,
                                           SampleRanks)

\* A point that is an observation with a value strictly between 0 and 1, and a
\* call of empirical_copula_many whose values differ.
C29_ObservationPoint ==
  /\ trace.point # <<>>
  /\ trace.many # <<>>
  /\ \E j \in 1..Len(swe) : trace.point = <<SampleRanks[1][j], SampleRanks[2][j]>>
  /\ ~RatLe(trace.w_i, <<1, Len(swe)>>)
  /\ ~RatLe(<<1, 1>>, trace.w_i)
  /\ \E i, j \in 1..Len(trace.w) : ~RatEq(trace.w[i], trace.w[j])

\* The sample has no two equal February values and no two equal April values.
NoTies ==
  \A i, j \in 1..Len(swe) :
    i # j => swe[i].danFeb # swe[j].danFeb /\ swe[i].danApr # swe[j].danApr

\* Concordant minus discordant pairs of the sample.
ConcordantMinusDiscordant ==
  LET pairs == {p \in (1..Len(swe)) \X (1..Len(swe)) : p[1] < p[2]}
      sign(p) == (swe[p[1]].danFeb - swe[p[2]].danFeb) * (swe[p[1]].danApr - swe[p[2]].danApr)
  IN  Cardinality({p \in pairs : sign(p) > 0}) - Cardinality({p \in pairs : sign(p) < 0})

\* C30: for a sample of n >= 2 pairs without ties, tau_n computed from the
\* empirical copula values of the sample's own ranks equals Kendall's tau,
\* (concordant - discordant) / (n (n - 1) / 2).
C30_TauFromCopulaIsKendall ==
  (trace.tau_n # <<>> /\ NoTies) =>
    /\ \A i \in 1..Len(swe) :
         /\ trace.RFeb[i] = <<Cardinality({j \in 1..Len(swe) : swe[j].danFeb <= swe[i].danFeb}),
                              Len(swe) + 1>>
         /\ trace.RApr[i] = <<Cardinality({j \in 1..Len(swe) : swe[j].danApr <= swe[i].danApr}),
                              Len(swe) + 1>>
    /\ RatEq(trace.tau_n, <<2 * ConcordantMinusDiscordant, Len(swe) * (Len(swe) - 1)>>)

\* A sample of three pairs without ties with concordant and discordant pairs.
C30_MixedSample ==
  /\ trace.tau_n # <<>>
  /\ NoTies
  /\ Len(swe) >= 3
  /\ ~RatEq(trace.tau_n, <<1, 1>>)
  /\ ~RatEq(trace.tau_n, <<-1, 1>>)

\* C11: for each stage, a call without redo returns the persisted table, writes
\* nothing whatever the save flag, and leaves the historical tables as they
\* are; a call with redo persists the table it returns if and only if save is set.
C11_RedoAndSaveFlags == [][C11_Call]_vars

\* synthetic_power has been called without redo and with save, and returned the
\* table an earlier call persisted, while nothing else is persisted.
C11_LoadedWithSaveSet ==
  /\ trace.last = "pow" /\ ~trace.redo /\ trace.save /\ trace.ok
  /\ powSynth = disk.pow
  /\ disk.gen = <<>> /\ disk.swe = <<>>
====
